---- MODULE Spec2Model ----
(***************************************************************************)
(* netmon: a sampler thread appends per-interface (elapsed, rate) points   *)
(* to a shared map under a write lock while the main loop draws a chart    *)
(* from the map under a read lock and polls the keyboard.                  *)
(*                                                                         *)
(* Interface names are modelled by numbers, standing for the names in      *)
(* ascending lexicographic order.  Timestamps are kept in milliseconds     *)
(* (as_secs_f64 is a monotone rescaling of them); rates are bytes per      *)
(* second.                                                                 *)
(***************************************************************************)
EXTENDS Integers, Sequences, FiniteSets, TLC

\* ---- bounds of the model ------------------------------------------------
MaxTicks  == 2      \* sampler ticks explored
MaxDigits == 11     \* base-1024 digits of the sizes given to humanize_size

\* ---- program constants --------------------------------------------------
IntervalMs == 100   \* collector_interval, Duration::from_millis(100)

\* ---- the environment ----------------------------------------------------
Names    == {1, 2}             \* interfaces the provider can ever report
TxValues == {0, 1000}          \* bytes transmitted since the last refresh
Drift    == {0, 1}             \* ms that may pass before elapsed is read
EmptyMap == [n \in {} |-> <<>>]
NoChart  == [x_bounds |-> <<>>, y_bounds |-> <<>>, datasets |-> <<>>]
NotStopped == [n \in {} |-> 0]
NoFmt    == [pc |-> "idle"]

VARIABLES
    pcM,          \* position of the main thread
    pcS,          \* position of the sampler thread
    running,      \* App.running (AtomicBool)
    data,         \* App.data: name -> sequence of <<timestamp, rate>>
    dataWriter,   \* the RwLock of data is write-held
    dataReaders,  \* number of read guards on data
    nets,         \* App.networks: name -> transmitted
    netLock,      \* the RwLock of networks: "free", "read" or "write"
    hashOrder,    \* iteration order of the data HashMap in this process
    now,          \* the monotonic clock, in ms
    start_time,   \* sampler local: Instant::now() at thread start
    elapsed,      \* sampler local: elapsed read at the top of the tick
    todo,         \* sampler local: interfaces the for loop has yet to visit
    cur,          \* sampler local: interface of the current loop body
    ticks,        \* number of ticks started (bounds the exploration)
    appended,     \* history: the points the sampler has pushed, per name
    datasets,     \* draw local: <<name, series>> in iteration order
    last_ts,      \* draw local
    max_transmitted, \* draw local
    chart,        \* draw local: the Chart handed to render_widget
    termRaw,      \* the terminal is in the state ratatui::init put it in
    restored,     \* ratatui::restore() has run
    appResult,    \* result main returns: "none", "Ok" or "Err"
    qRead,        \* history: a 'q' key event has been read
    input,        \* run local: what poll/read yielded in this loop iteration
    lenAtStop,    \* history: series lengths when running.store(false) ran
    fmt           \* the humanize_size call under way (its input, unit, result)

vars == <<pcM, pcS, running, data, dataWriter, dataReaders, nets, netLock,
          hashOrder, now, start_time, elapsed, todo, cur, ticks, appended,
          datasets, last_ts, max_transmitted, chart, termRaw, restored,
          appResult, qRead, input, lenAtStop, fmt>>

progVars == <<pcM, pcS, running, data, dataWriter, dataReaders, nets, netLock,
              hashOrder, now, start_time, elapsed, todo, cur, ticks, appended,
              datasets, last_ts, max_transmitted, chart, termRaw, restored,
              appResult, qRead, input, lenAtStop>>

mainVars    == <<pcM, datasets, last_ts, max_transmitted, chart, termRaw,
                 restored, appResult, qRead, input, lenAtStop>>
samplerVars == <<pcS, nets, netLock, now, start_time, elapsed, todo, cur,
                 ticks, appended>>

\* ---- helpers --------------------------------------------------------------
Max(S) == CHOOSE x \in S : \A y \in S : y <= x

IsPrefix(s, t) == Len(s) <= Len(t) /\ SubSeq(t, 1, Len(s)) = s

\* the orders in which a HashMap over Names may iterate
Perms ==
    LET N == Cardinality(Names)
    IN  {f \in [1..N -> Names] : \A i, j \in 1..N : f[i] = f[j] => i = j}

\* (a faulty variant: insert, which replaces an existing series)
OrInsertReset(d, k) == [n \in DOMAIN d \cup {k} |-> IF n = k THEN <<>> ELSE d[n]]

\* HashMap::entry(name).or_insert_with(Vec::new)
OrInsertWith(d, k) ==
    IF k \in DOMAIN d THEN d
    ELSE [n \in DOMAIN d \cup {k} |-> IF n = k THEN <<>> ELSE d[n]]

\* (a faulty variant: the byte count is pushed without the division)
RateUnscaled(tx) == tx

\* transmitted as f64 / interval.as_secs_f64()
Rate(tx) == (tx * 1000) \div IntervalMs

\* ifdata.push((elapsed, rate))
PushPoint(d, k, p) == [d EXCEPT ![k] = Append(@, p)]

\* (a faulty variant: a read that does not wait for the writer)
CanReadUnlocked(writer) == TRUE

\* RwLock::read blocks while a writer holds the lock
CanRead(writer) == ~writer

\* RwLock::write blocks while a writer or a reader holds the lock
CanWrite(writer, readers) == ~writer /\ readers = 0

\* (a faulty variant: the loop visits every known name, reported or not)
IterAllNames(n) == Names

\* networks.read().unwrap().iter(): the interfaces of the last refresh
IterKeys(n) == DOMAIN n

\* (a faulty variant: the flag is not consulted)
ContinueAlways(flag) == TRUE

\* while running.load(Relaxed): the loop goes on while the flag is true
ShouldContinue(flag) == flag

\* (a faulty variant: any key quits)
IsAnyKey(r) == r \in {"key_q", "key_other"}

\* if let Event::Key(input) = .. { if input.code == KeyCode::Char('q') {
IsQuitKey(r) == r = "key_q"

\* (a faulty variant: no sleep between two ticks)
SleepNoWait(t) == t

\* thread::sleep(interval): the clock has advanced by the interval
SleepUntil(t) == t + IntervalMs

\* ---- App::draw, the pure part ----------------------------------------------
\* data.iter().map(...).collect(): one dataset per key, in the map's order
Datasets(d, order) ==
    LET keys == SelectSeq(order, LAMBDA n : n \in DOMAIN d)
    IN  [i \in 1..Len(keys) |-> <<keys[i], d[keys[i]]>>]

\* d.last().map_or(0.0, |(t, _)| *t)
LastOf(s) == IF s = <<>> THEN 0 ELSE s[Len(s)][1]

\* (a faulty variant: the smallest of the last timestamps)
LastTsMin(d) ==
    IF DOMAIN d = {} THEN 0
    ELSE CHOOSE x \in {LastOf(d[n]) : n \in DOMAIN d} :
            \A n \in DOMAIN d : x <= LastOf(d[n])

\* data.values().map(last timestamp).max_by(total_cmp).unwrap_or(0.0)
LastTs(d) ==
    IF DOMAIN d = {} THEN 0 ELSE Max({LastOf(d[n]) : n \in DOMAIN d})

\* d.iter().map(|(_, t)| *t).max_by(total_cmp).unwrap_or(0.0)
MaxRateOf(s) == IF s = <<>> THEN 0 ELSE Max({s[i][2] : i \in 1..Len(s)})

\* (a faulty variant: the last rate of each series instead of its maximum)
LastRate(d) ==
    IF DOMAIN d = {} THEN 0
    ELSE Max({IF d[n] = <<>> THEN 0 ELSE d[n][Len(d[n])][2] : n \in DOMAIN d})

\* data.values().map(max rate of the series).max_by(total_cmp).unwrap_or(0.0)
MaxTransmitted(d) ==
    IF DOMAIN d = {} THEN 0 ELSE Max({MaxRateOf(d[n]) : n \in DOMAIN d})

\* Chart::new(datasets).x_axis(bounds [0.0, last_ts]).y_axis(bounds [0.0, max_transmitted])
BuildChart(ds, lts, mx) ==
    [x_bounds |-> <<0, lts>>, y_bounds |-> <<0, mx>>, datasets |-> ds]

\* ---- initial state: the process has started, main has not run yet ----------
InitProgram ==
    /\ pcM = "init"
    /\ pcS = "none"
    /\ running = FALSE
    /\ data = EmptyMap
    /\ dataWriter = FALSE
    /\ dataReaders = 0
    /\ nets = EmptyMap
    /\ netLock = "free"
    /\ hashOrder \in Perms
    /\ now = 0
    /\ start_time = 0
    /\ elapsed = 0
    /\ todo = {}
    /\ cur = 0
    /\ ticks = 0
    /\ appended = [n \in Names |-> <<>>]
    /\ datasets = <<>>
    /\ last_ts = 0
    /\ max_transmitted = 0
    /\ chart = NoChart
    /\ termRaw = FALSE
    /\ restored = FALSE
    /\ appResult = "none"
    /\ qRead = FALSE
    /\ input = "none"
    /\ lenAtStop = NotStopped

Init == InitProgram /\ fmt = NoFmt

\* ---- main ---------------------------------------------------------------
\* let mut terminal = ratatui::init();
MainInit ==
    /\ pcM = "init"
    /\ termRaw' = TRUE
    /\ pcM' = "clear"
    /\ UNCHANGED <<pcS, running, data, dataWriter, dataReaders, hashOrder>>
    /\ UNCHANGED <<datasets, last_ts, max_transmitted, chart, restored, appResult, qRead>>
    /\ UNCHANGED samplerVars
    /\ UNCHANGED <<lenAtStop, fmt>>
    /\ UNCHANGED input

\* terminal.clear()?;  an Err returns from main at once
MainClear ==
    /\ pcM = "clear"
    /\ \E ok \in BOOLEAN :
          IF ok THEN pcM' = "new" /\ appResult' = appResult
                ELSE pcM' = "exited" /\ appResult' = "Err"
    /\ UNCHANGED <<pcS, running, data, dataWriter, dataReaders, hashOrder>>
    /\ UNCHANGED <<datasets, last_ts, max_transmitted, chart, termRaw, restored, qRead>>
    /\ UNCHANGED samplerVars
    /\ UNCHANGED <<lenAtStop, fmt>>
    /\ UNCHANGED input

\* App::new(): the networks list is refreshed once, running is false, data is empty
AppNew ==
    /\ pcM = "new"
    /\ \E S \in SUBSET Names : nets' = [n \in S |-> 0]
    /\ running' = FALSE
    /\ data' = EmptyMap
    /\ pcM' = "run"
    /\ UNCHANGED <<pcS, dataWriter, dataReaders, hashOrder>>
    /\ UNCHANGED <<datasets, last_ts, max_transmitted, chart, termRaw, restored, appResult, qRead>>
    /\ UNCHANGED <<netLock, now, start_time, elapsed, todo, cur, ticks, appended>>
    /\ UNCHANGED <<lenAtStop, fmt>>
    /\ UNCHANGED input

\* (a faulty variant: the flag is left as App::new set it)
RunSkipStoreTrue ==
    /\ pcM = "run"
    /\ pcM' = "spawn"
    /\ UNCHANGED <<pcS, running, data, dataWriter, dataReaders, hashOrder>>
    /\ UNCHANGED <<datasets, last_ts, max_transmitted, chart, termRaw, restored, appResult, qRead>>
    /\ UNCHANGED samplerVars
    /\ UNCHANGED <<lenAtStop, fmt, input>>

\* self.running.store(true, Relaxed);
RunStoreTrue ==
    /\ pcM = "run"
    /\ running' = TRUE
    /\ pcM' = "spawn"
    /\ UNCHANGED <<pcS, data, dataWriter, dataReaders, hashOrder>>
    /\ UNCHANGED <<datasets, last_ts, max_transmitted, chart, termRaw, restored, appResult, qRead>>
    /\ UNCHANGED samplerVars
    /\ UNCHANGED <<lenAtStop, fmt>>
    /\ UNCHANGED input

\* self.start_collector(): the thread is spawned and takes start_time
StartCollector ==
    /\ pcM = "spawn"
    /\ pcS' = "check"
    /\ start_time' = now
    /\ pcM' = "draw"
    /\ UNCHANGED <<running, data, dataWriter, dataReaders, hashOrder>>
    /\ UNCHANGED <<datasets, last_ts, max_transmitted, chart, termRaw, restored, appResult, qRead>>
    /\ UNCHANGED <<nets, netLock, now, elapsed, todo, cur, ticks, appended>>
    /\ UNCHANGED <<lenAtStop, fmt>>
    /\ UNCHANGED input

\* run returns Err through `?`: nothing after the failing call runs
RunErr ==
    /\ appResult' = "Err"
    /\ pcM' = "restore"

\* terminal.draw(|frame| self.draw(frame).unwrap()) enters App::draw:
\* let data = self.data.read().unwrap();
DrawLock ==
    /\ pcM = "draw"
    /\ CanRead(dataWriter)
    /\ dataReaders' = dataReaders + 1
    /\ pcM' = "draw_compute"
    /\ UNCHANGED <<running, data, dataWriter, hashOrder>>
    /\ UNCHANGED <<datasets, last_ts, max_transmitted, chart, termRaw, restored, appResult, qRead>>
    /\ UNCHANGED samplerVars
    /\ UNCHANGED <<lenAtStop, fmt>>
    /\ input' = "none"

\* (a faulty variant: the render pass drops the points it has drawn)
DrawComputeDraining ==
    /\ pcM = "draw_compute"
    /\ datasets' = Datasets(data, hashOrder)
    /\ last_ts' = LastTs(data)
    /\ max_transmitted' = MaxTransmitted(data)
    /\ data' = [n \in DOMAIN data |-> <<>>]
    /\ pcM' = "draw_chart"
    /\ UNCHANGED <<running, dataWriter, dataReaders, hashOrder>>
    /\ UNCHANGED <<chart, termRaw, restored, appResult, qRead, input>>
    /\ UNCHANGED samplerVars
    /\ UNCHANGED <<lenAtStop, fmt>>

\* datasets, last_ts and max_transmitted are computed from the guarded map
DrawCompute ==
    /\ pcM = "draw_compute"
    /\ datasets' = Datasets(data, hashOrder)
    /\ last_ts' = LastTs(data)
    /\ max_transmitted' = MaxTransmitted(data)
    /\ pcM' = "draw_chart"
    /\ UNCHANGED <<running, data, dataWriter, dataReaders, hashOrder>>
    /\ UNCHANGED <<chart, termRaw, restored, appResult, qRead>>
    /\ UNCHANGED samplerVars
    /\ UNCHANGED <<lenAtStop, fmt>>
    /\ UNCHANGED input

\* the chart is built and frame.render_widget(chart, frame.area()) renders it
DrawChart ==
    /\ pcM = "draw_chart"
    /\ chart' = BuildChart(datasets, last_ts, max_transmitted)
    /\ pcM' = "draw_ret"
    /\ UNCHANGED <<running, data, dataWriter, dataReaders, hashOrder>>
    /\ UNCHANGED <<datasets, last_ts, max_transmitted, termRaw, restored, appResult, qRead>>
    /\ UNCHANGED samplerVars
    /\ UNCHANGED <<lenAtStop, fmt>>
    /\ UNCHANGED input

\* App::draw returns Ok(()): its locals, the read guard among them, are dropped;
\* terminal.draw then flushes the frame and yields Ok or Err
DrawReturn ==
    /\ pcM = "draw_ret"
    /\ dataReaders' = dataReaders - 1
    /\ datasets' = <<>>
    /\ last_ts' = 0
    /\ max_transmitted' = 0
    /\ chart' = NoChart
    /\ \E ok \in BOOLEAN :
          IF ok THEN pcM' = "poll" /\ appResult' = appResult
                ELSE RunErr
    /\ UNCHANGED <<running, data, dataWriter, hashOrder>>
    /\ UNCHANGED <<termRaw, restored, qRead>>
    /\ UNCHANGED samplerVars
    /\ UNCHANGED <<lenAtStop, fmt>>
    /\ UNCHANGED input

\* if event::poll(timeout)? { ... }; a timeout falls through to the tick
\* bookkeeping and the next iteration
EventPoll ==
    /\ pcM = "poll"
    /\ \E r \in {"event", "timeout", "err"} :
          CASE r = "event"   -> pcM' = "read" /\ appResult' = appResult /\ input' = input
            [] r = "timeout" -> pcM' = "draw" /\ appResult' = appResult /\ input' = r
            [] r = "err"     -> RunErr /\ input' = input
    /\ UNCHANGED <<running, data, dataWriter, dataReaders, hashOrder>>
    /\ UNCHANGED <<datasets, last_ts, max_transmitted, chart, termRaw, restored, qRead>>
    /\ UNCHANGED samplerVars
    /\ UNCHANGED <<lenAtStop, fmt>>

\* if let Event::Key(input) = event::read()? { if input.code == Char('q') ... }
EventRead ==
    /\ pcM = "read"
    /\ \E r \in {"key_q", "key_other", "not_key", "err"} :
          /\ qRead' = (qRead \/ r = "key_q")
          /\ CASE r = "err"    -> RunErr /\ input' = input
               [] IsQuitKey(r) -> pcM' = "farewell" /\ appResult' = appResult /\ input' = r
               [] OTHER        -> pcM' = "draw" /\ appResult' = appResult /\ input' = r
    /\ UNCHANGED <<running, data, dataWriter, dataReaders, hashOrder>>
    /\ UNCHANGED <<datasets, last_ts, max_transmitted, chart, termRaw, restored>>
    /\ UNCHANGED samplerVars
    /\ UNCHANGED <<lenAtStop, fmt>>

\* terminal.draw(|frame| render "Quitting...")?; break;
FarewellDraw ==
    /\ pcM = "farewell"
    /\ \E ok \in BOOLEAN :
          IF ok THEN pcM' = "stop" /\ appResult' = appResult
                ELSE RunErr
    /\ UNCHANGED <<running, data, dataWriter, dataReaders, hashOrder>>
    /\ UNCHANGED <<datasets, last_ts, max_transmitted, chart, termRaw, restored, qRead>>
    /\ UNCHANGED samplerVars
    /\ UNCHANGED <<lenAtStop, fmt>>
    /\ UNCHANGED input

\* self.running.store(false, Relaxed);
RunStoreFalse ==
    /\ pcM = "stop"
    /\ running' = FALSE
    /\ pcM' = "join"
    /\ lenAtStop' = [n \in Names |-> Len(appended[n])]
    /\ UNCHANGED <<data, dataWriter, dataReaders, hashOrder>>
    /\ UNCHANGED <<datasets, last_ts, max_transmitted, chart, termRaw, restored, appResult, qRead>>
    /\ UNCHANGED samplerVars
    /\ UNCHANGED fmt
    /\ UNCHANGED input

\* self.collector.ok_or(..)?.join().unwrap(); Ok(())
\* collector is Some since start_collector; join waits for the thread to end
RunJoin ==
    /\ pcM = "join"
    /\ pcS = "done"
    /\ appResult' = "Ok"
    /\ pcM' = "restore"
    /\ UNCHANGED <<running, data, dataWriter, dataReaders, hashOrder>>
    /\ UNCHANGED <<datasets, last_ts, max_transmitted, chart, termRaw, restored, qRead>>
    /\ UNCHANGED samplerVars
    /\ UNCHANGED <<lenAtStop, fmt>>
    /\ UNCHANGED input

\* ratatui::restore(); app_result   -- main returns and the process exits
MainRestore ==
    /\ pcM = "restore"
    /\ restored' = TRUE
    /\ termRaw' = FALSE
    /\ pcM' = "exited"
    /\ UNCHANGED <<running, data, dataWriter, dataReaders, hashOrder>>
    /\ UNCHANGED <<datasets, last_ts, max_transmitted, chart, appResult, qRead>>
    /\ UNCHANGED samplerVars
    /\ UNCHANGED <<lenAtStop, fmt>>
    /\ UNCHANGED input

\* ---- the sampler thread (the closure of start_collector) --------------------
\* the threads of a process end when main returns
Alive == pcM # "exited"

\* while running.load(Relaxed) { ... }
SamplerCheck ==
    /\ Alive
    /\ pcS = "check"
    /\ IF ShouldContinue(running)
          THEN ticks < MaxTicks /\ pcS' = "elapsed"
          ELSE pcS' = "done"
    /\ UNCHANGED <<running, data, dataWriter, dataReaders, hashOrder>>
    /\ UNCHANGED mainVars
    /\ UNCHANGED fmt
    /\ UNCHANGED <<nets, netLock, now, start_time, elapsed, todo, cur, ticks, appended>>

\* let elapsed = start_time.elapsed().as_secs_f64();
SamplerElapsed ==
    /\ Alive
    /\ pcS = "elapsed"
    /\ \E j \in Drift :
          /\ now' = now + j
          /\ elapsed' = now' - start_time
    /\ ticks' = ticks + 1
    /\ pcS' = "refresh"
    /\ UNCHANGED <<running, data, dataWriter, dataReaders, hashOrder>>
    /\ UNCHANGED mainVars
    /\ UNCHANGED fmt
    /\ UNCHANGED <<nets, netLock, start_time, todo, cur, appended>>

\* networks.write().unwrap().refresh(true); the write guard is a temporary.
\* The provider reports any set of interfaces, each with the bytes
\* transmitted since the previous refresh.
SamplerRefresh ==
    /\ Alive
    /\ pcS = "refresh"
    /\ netLock = "free"
    /\ \E S \in SUBSET Names : nets' \in [S -> TxValues]
    /\ pcS' = "iter_begin"
    /\ UNCHANGED <<running, data, dataWriter, dataReaders, hashOrder>>
    /\ UNCHANGED mainVars
    /\ UNCHANGED fmt
    /\ UNCHANGED <<netLock, now, start_time, elapsed, todo, cur, ticks, appended>>

\* for (name, network) in networks.read().unwrap().iter() {
SamplerIterBegin ==
    /\ Alive
    /\ pcS = "iter_begin"
    /\ netLock = "free"
    /\ netLock' = "read"
    /\ todo' = IterKeys(nets)
    /\ pcS' = "iter"
    /\ UNCHANGED <<running, data, dataWriter, dataReaders, hashOrder>>
    /\ UNCHANGED mainVars
    /\ UNCHANGED fmt
    /\ UNCHANGED <<nets, now, start_time, elapsed, cur, ticks, appended>>

\* the iterator yields the next interface, or ends the loop and the read
\* guard on networks is dropped
SamplerIterNext ==
    /\ Alive
    /\ pcS = "iter"
    /\ IF todo = {}
          THEN /\ netLock' = "free"
               /\ pcS' = "sleep"
               /\ UNCHANGED <<todo, cur>>
          ELSE /\ \E n \in todo : cur' = n /\ todo' = todo \ {n}
               /\ pcS' = "lock"
               /\ UNCHANGED netLock
    /\ UNCHANGED <<running, data, dataWriter, dataReaders, hashOrder>>
    /\ UNCHANGED mainVars
    /\ UNCHANGED fmt
    /\ UNCHANGED <<nets, now, start_time, elapsed, ticks, appended>>

\* let mut data = data.write().unwrap();
SamplerLock ==
    /\ Alive
    /\ pcS = "lock"
    /\ CanWrite(dataWriter, dataReaders)
    /\ dataWriter' = TRUE
    /\ pcS' = "entry"
    /\ UNCHANGED <<running, data, dataReaders, hashOrder>>
    /\ UNCHANGED mainVars
    /\ UNCHANGED fmt
    /\ UNCHANGED <<nets, netLock, now, start_time, elapsed, todo, cur, ticks, appended>>

\* let ifdata = data.entry(name.clone()).or_insert_with(Vec::new);
SamplerEntry ==
    /\ Alive
    /\ pcS = "entry"
    /\ data' = OrInsertWith(data, cur)
    /\ pcS' = "push"
    /\ UNCHANGED <<running, dataWriter, dataReaders, hashOrder>>
    /\ UNCHANGED mainVars
    /\ UNCHANGED fmt
    /\ UNCHANGED <<nets, netLock, now, start_time, elapsed, todo, cur, ticks, appended>>

\* ifdata.push((elapsed, transmitted / interval.as_secs_f64()));
\* the write guard is dropped at the end of the loop body
SamplerPush ==
    /\ Alive
    /\ pcS = "push"
    /\ data' = PushPoint(data, cur, <<elapsed, Rate(nets[cur])>>)
    /\ appended' = [appended EXCEPT ![cur] = Append(@, <<elapsed, Rate(nets[cur])>>)]
    /\ dataWriter' = FALSE
    /\ pcS' = "iter"
    /\ UNCHANGED <<running, dataReaders, hashOrder>>
    /\ UNCHANGED mainVars
    /\ UNCHANGED fmt
    /\ UNCHANGED <<nets, netLock, now, start_time, elapsed, todo, cur, ticks>>

\* thread::sleep(interval);
SamplerSleep ==
    /\ Alive
    /\ pcS = "sleep"
    /\ now' = SleepUntil(now)
    /\ pcS' = "check"
    /\ UNCHANGED <<running, data, dataWriter, dataReaders, hashOrder>>
    /\ UNCHANGED mainVars
    /\ UNCHANGED fmt
    /\ UNCHANGED <<nets, netLock, start_time, elapsed, todo, cur, ticks, appended>>

Next ==
    \/ MainInit \/ MainClear \/ AppNew \/ RunStoreTrue \/ StartCollector
    \/ DrawLock \/ DrawCompute \/ DrawChart \/ DrawReturn
    \/ EventPoll \/ EventRead \/ FarewellDraw
    \/ RunStoreFalse \/ RunJoin \/ MainRestore
    \/ SamplerCheck \/ SamplerElapsed \/ SamplerRefresh \/ SamplerIterBegin
    \/ SamplerIterNext \/ SamplerLock \/ SamplerEntry \/ SamplerPush
    \/ SamplerSleep

Spec == Init /\ [][Next]_vars

\* ---- NumericFormatter::humanize_size / humanize_bps -------------------------
\* A size is a non-negative number given by the base-1024 digits of its
\* integer part (least significant first, no leading zero) and a flag for a
\* fractional part of one half; 1024^9 does not fit the integers of the
\* checker.  The rendering of the scaled value with one decimal is not
\* modelled: the formatted string is the sequence of its parts.
UNITS == <<"", "K", "M", "G", "T", "P", "E", "Z", "Y">>

Digits(len, top, fill) == [i \in 1..len |-> IF i = len THEN top ELSE fill]

Sizes ==
    {[int |-> <<>>, half |-> h] : h \in BOOLEAN} \cup
    {[int |-> Digits(l, t, f), half |-> h] :
        l \in 1..MaxDigits, t \in {1, 1023}, f \in {0, 1023}, h \in BOOLEAN}

\* (1024f64).powi(i)
Pow1024(i) == [int |-> Digits(i + 1, 1, 0), half |-> FALSE]

\* a < b on f64
Less(a, b) ==
    LET x == a.int
        y == b.int
    IN  IF Len(x) # Len(y) THEN Len(x) < Len(y)
        ELSE IF x # y
             THEN LET top == Max({i \in 1..Len(x) : x[i] # y[i]})
                  IN  x[top] < y[top]
             ELSE ~a.half /\ b.half

\* (a faulty variant: size <= 1024^i)
AtMostPow(size, i) == ~Less(Pow1024(i), size)

\* the closure |i| size < (1024f64).powi(*i as i32)
BelowPow(size, i) == Less(size, Pow1024(i))

\* (0..=UNITS.len()).find(..).unwrap_or(UNITS.len()).saturating_sub(1)
FindUnit(size) ==
    LET hits  == {i \in 0..Len(UNITS) : BelowPow(size, i)}
        found == IF hits = {} THEN Len(UNITS)
                 ELSE CHOOSE i \in hits : \A j \in hits : i <= j
    IN  IF found = 0 THEN 0 ELSE found - 1

\* size / (1024f64).powi(unit as i32): the digits from position unit up are
\* the integer part, those below (and the half) the fraction
Scale(size, unit) ==
    LET d == size.int
    IN  [int  |-> IF unit >= Len(d) THEN <<>> ELSE SubSeq(d, unit + 1, Len(d)),
         frac |-> IF unit >= Len(d) THEN d ELSE SubSeq(d, 1, unit),
         pad  |-> IF unit >= Len(d) THEN unit - Len(d) ELSE 0,
         half |-> size.half]

\* format!("{:.1}{}", scaled, UNITS[unit]); UNITS[unit] panics out of bounds
FormatSize(size, unit) ==
    IF unit + 1 \in DOMAIN UNITS
       THEN <<Scale(size, unit), UNITS[unit + 1]>>
       ELSE <<"panic">>

\* format!("{}bps", self.humanize_size())
FormatBps(str) == str \o <<"bps">>

\* let size = self.into(); let unit = ..;
HumanizeCall ==
    /\ fmt.pc = "called"
    /\ fmt' = [pc |-> "unit", size |-> fmt.size, unit |-> FindUnit(fmt.size)]
    /\ UNCHANGED progVars

\* humanize_size returns the formatted string
HumanizeFormat ==
    /\ fmt.pc = "unit"
    /\ fmt' = [pc |-> "size_done", size |-> fmt.size, unit |-> fmt.unit,
               out |-> FormatSize(fmt.size, fmt.unit)]
    /\ UNCHANGED progVars

\* humanize_bps appends to what humanize_size returned
HumanizeBps ==
    /\ fmt.pc = "size_done"
    /\ fmt' = [fmt EXCEPT !.pc = "bps_done", !.out = FormatBps(@)]
    /\ UNCHANGED progVars

HumanizeInit == InitProgram /\ fmt \in {[pc |-> "called", size |-> z] : z \in Sizes}

HumanizeNext == HumanizeCall \/ HumanizeFormat \/ HumanizeBps

HumanizeSpec == HumanizeInit /\ [][HumanizeNext]_vars

\* ==== the claims ============================================================
InDraw == pcM \in {"draw_chart", "draw_ret"}
Rendered == pcM = "draw_ret"

\* a thread waits for a lock or for the other thread
MainBlocked ==
    \/ pcM = "draw" /\ ~CanRead(dataWriter)
    \/ pcM = "join" /\ pcS # "done"
SamplerBlocked ==
    \/ pcS = "lock" /\ ~CanWrite(dataWriter, dataReaders)
    \/ pcS \in {"refresh", "iter_begin"} /\ netLock # "free"
Deadlocked ==
    /\ Alive
    /\ \/ pcS \in {"refresh", "iter_begin"} /\ netLock # "free"
       \/ MainBlocked /\ (SamplerBlocked \/ pcS \in {"none", "done"})

\* C1: under every interleaving of sampler ticks and render passes no
\* deadlock state is reachable; a render pass reads the store only while no
\* writer is inside its critical section, and every series it observes is a
\* sequence of complete (timestamp, rate) points that is a prefix of what the
\* sampler has appended for that interface and equals the stored series for
\* as long as the pass lasts.
C1_ConsistentSnapshots ==
    /\ ~Deadlocked
    /\ ~(dataWriter /\ dataReaders > 0)
    /\ InDraw =>
          /\ dataReaders > 0
          /\ datasets = Datasets(data, hashOrder)
          /\ \A i \in 1..Len(datasets) :
                LET n == datasets[i][1]
                    s == datasets[i][2]
                IN  /\ IsPrefix(s, appended[n])
                    /\ \A k \in 1..Len(s) : s[k] \in Nat \X Nat

\* a render pass holds two non-empty series while the sampler waits for the lock
C1_Witness ==
    /\ pcM = "draw_chart"
    /\ pcS = "lock"
    /\ Len(datasets) = 2
    /\ \A i \in 1..Len(datasets) : Len(datasets[i][2]) >= 1

\* C2: once a 'q' key event has been read the program exits cleanly: when
\* main has returned after a quit request, the stop flag is false, the sampler
\* has terminated and the result is Ok.
C2_QuitExitsCleanly ==
    (qRead /\ pcM = "exited") =>
        (appResult = "Ok" /\ ~running /\ pcS = "done")

\* C3: no state is reachable in which run has returned while the sampler it
\* started is still running: on every return path the stop flag was cleared
\* and the sampler thread has terminated.
C3_JoinedBeforeReturn ==
    (pcM \in {"restore", "exited"} /\ pcS # "none") =>
        (~running /\ pcS = "done")

\* C4: whenever main has returned after the terminal was initialized, the
\* restore step has been executed.
C4_RestoredOnExit ==
    pcM = "exited" => (restored /\ ~termRaw)

\* C5: in every reachable state the timestamps of every series strictly
\* increase.
C5_StrictlyIncreasing ==
    \A n \in DOMAIN data :
        \A i \in 1..(Len(data[n]) - 1) : data[n][i][1] < data[n][i + 1][1]

\* a series holds points of two ticks
C5_Witness ==
    \E n \in DOMAIN data : Len(data[n]) >= 2

\* C6: the store is append-only: in every step the key set does not shrink
\* and every series before the step is a prefix of the series after it.
C6_AppendOnly ==
    [][/\ DOMAIN data \subseteq DOMAIN data'
       /\ \A n \in DOMAIN data : IsPrefix(data[n], data'[n])]_vars

\* one interface was pushed to in two ticks, another appeared in the second
C6_Witness ==
    \E n, m \in DOMAIN data :
        /\ Len(data[n]) = 2
        /\ Len(data[m]) = 1
        /\ data[m][1][1] > data[n][1][1]

\* C7: for a render pass with display duration D (60 s, the spec's example)
\* the x-axis domain is [start, end] with end = max(D, last timestamp) and
\* start = max(0, end - D).
C7_WindowedDomain ==
    Rendered =>
        LET D     == 60 * 1000
            last  == LastTs(data)
            end   == IF D >= last THEN D ELSE last
            start == IF end - D >= 0 THEN end - D ELSE 0
        IN  chart.x_bounds = <<start, end>>

\* C8: for every render pass the y-axis range is [0, max_rate], max_rate
\* being the maximum rate over the points of all series whose timestamp is at
\* or after the start of the x domain handed to the chart, and 0 when there
\* is no such point.
C8_RangeOverDisplayed ==
    Rendered =>
        LET start   == chart.x_bounds[1]
            shown   == UNION {{data[n][i][2] : i \in {k \in 1..Len(data[n]) :
                                                     data[n][k][1] >= start}} :
                              n \in DOMAIN data}
        IN  chart.y_bounds = <<0, IF shown = {} THEN 0 ELSE Max(shown)>>

\* a render pass over a series whose largest rate is not its last point
C8_Witness ==
    /\ Rendered
    /\ \E n \in DOMAIN data :
          /\ Len(data[n]) = 2
          /\ data[n][1][2] > data[n][2][2]
          /\ chart.y_bounds[2] = data[n][1][2]

\* C9: in every render pass the axis bounds handed to the chart are
\* non-degenerate: upper bound strictly above the lower bound on both axes.
C9_NonDegenerateBounds ==
    Rendered =>
        /\ chart.x_bounds[1] < chart.x_bounds[2]
        /\ chart.y_bounds[1] < chart.y_bounds[2]

\* C10: every render pass emits the datasets in ascending order of interface
\* name.
C10_SortedByName ==
    InDraw =>
        \A i, j \in 1..Len(datasets) : i < j => datasets[i][1] < datasets[j][1]

\* C11: a sampler tick whose refresh yields no interfaces is a no-op: while
\* the sampler is in the loop of such a tick no step changes the store, and
\* the sampler's own steps take it to the sleep and from there to the next
\* flag check (it does not stop and takes no lock on the store).
C11_EmptyTickNoOp ==
    [][(DOMAIN nets = {} /\ pcS \in {"iter_begin", "iter", "sleep"}) =>
          /\ data' = data
          /\ pcS = "iter_begin" => pcS' \in {"iter_begin", "iter"}
          /\ pcS = "iter" => pcS' \in {"iter", "sleep"}
          /\ pcS = "sleep" => pcS' \in {"sleep", "check"}]_vars

\* the first tick reported no interface and the second one appended a point
C11_Witness ==
    /\ ticks = 2
    /\ DOMAIN data # {}
    /\ \A n \in DOMAIN data :
          /\ Len(data[n]) = 1
          /\ data[n][1][1] >= IntervalMs

\* C12: the sampler is the sole writer of the store: every step of the main
\* thread leaves the key set and every series unchanged, and a step that
\* changes the store is the sampler's entry or push under the write lock.
C12_SoleWriter ==
    [][/\ pcM' # pcM => data' = data
       /\ data' # data => (pcS \in {"entry", "push"} /\ dataWriter)]_vars

\* the main thread has drawn, polled, read a 'q' and started the quit
\* sequence over a store that holds points
C12_Witness ==
    /\ pcM = "join"
    /\ \E n \in DOMAIN data : Len(data[n]) >= 1

\* C13: the main loop ignores all input but 'q' and redraws on every
\* iteration: a poll or a read never changes the store or the stop flag; a
\* poll that times out, a non-key event and a key other than 'q' each lead
\* to the next render pass, and the quit sequence is entered only by a 'q'.
C13_OtherInputIgnored ==
    [][/\ (pcM \in {"poll", "read"} /\ pcM' # pcM) =>
             /\ data' = data
             /\ running' = running
             /\ input' \in {"timeout", "not_key", "key_other"} => pcM' = "draw"
             /\ pcM' = "farewell" => input' = "key_q"
       /\ pcM' \in {"farewell", "stop", "join"} => input' = "key_q"
       /\ (pcM = "draw" /\ pcM' # pcM) => pcM' = "draw_compute"]_vars

\* a key other than 'q' has led back to a render pass while the store holds
\* points and the flag is still set
C13_Witness ==
    /\ pcM = "draw"
    /\ input = "key_other"
    /\ running
    /\ \E n \in DOMAIN data : Len(data[n]) = 2

\* C14: when a tick's loop has ended, exactly one point of that tick (the one
\* stamped with the tick's elapsed) has been appended for each interface the
\* provider reported and none for any other; it is the last point of the
\* series and its rate is the transmitted byte count divided by the interval
\* in seconds (1000 bytes at 100 ms give 10000 bytes/sec); no rate is negative.
C14_OnePointPerInterface ==
    /\ \A n \in DOMAIN data : \A i \in 1..Len(data[n]) : data[n][i][2] >= 0
    /\ pcS = "sleep" =>
          /\ \A n \in DOMAIN nets :
                /\ n \in DOMAIN data
                /\ Cardinality({i \in 1..Len(data[n]) : data[n][i][1] = elapsed}) = 1
                /\ data[n][Len(data[n])][1] = elapsed
                /\ data[n][Len(data[n])][2] * IntervalMs = nets[n] * 1000
                /\ (nets[n] = 1000 /\ IntervalMs = 100) =>
                       data[n][Len(data[n])][2] = 10000
          /\ \A n \in DOMAIN data \ DOMAIN nets :
                \A i \in 1..Len(data[n]) : data[n][i][1] # elapsed

\* the second tick is complete: one interface reported 1000 bytes, the other,
\* seen in the first tick, was not reported
C14_Witness ==
    /\ pcS = "sleep"
    /\ ticks = 2
    /\ \E n \in DOMAIN nets : nets[n] = 1000 /\ Len(data[n]) = 2
    /\ DOMAIN data \ DOMAIN nets # {}

\* C15: humanize_size picks the base-1024 unit by magnitude: the unit index k
\* is 0 for a size below 1024 and otherwise the largest k with 1024^k <= size,
\* capped at 8; k is always an index of the 9-entry unit table; the value
\* printed is size / 1024^k, followed by the unit; humanize_bps is that string
\* followed by "bps".
C15_UnitByMagnitude ==
    fmt.pc \in {"unit", "size_done", "bps_done"} =>
        LET z == fmt.size
            k == fmt.unit
        IN  /\ k \in 0..8
            /\ k + 1 \in DOMAIN UNITS
            /\ Less(z, Pow1024(1)) => k = 0
            /\ ~Less(z, Pow1024(1)) =>
                  k = Max({j \in 0..8 : ~Less(z, Pow1024(j))})
            /\ fmt.pc \in {"size_done", "bps_done"} =>
                  /\ Len(fmt.out) >= 2
                  /\ LET v == fmt.out[1]
                     IN  /\ v.frac \o [i \in 1..v.pad |-> 0] \o v.int
                              = z.int \o [i \in 1..v.pad |-> 0]
                         /\ v.half = z.half
                         /\ Len(v.frac) + v.pad = k
                  /\ fmt.out[2] = UNITS[k + 1]
            /\ fmt.pc = "size_done" => Len(fmt.out) = 2
            /\ fmt.pc = "bps_done" => (Len(fmt.out) = 3 /\ fmt.out[3] = "bps")

\* humanize_bps has formatted a size of at least 1024^9: the capped case
C15_Witness ==
    /\ fmt.pc = "bps_done"
    /\ ~Less(fmt.size, Pow1024(9))
    /\ fmt.unit = 8
    /\ fmt.out[2] = "Y"

\* C16: no lock on the store is held across rendering: when the chart is
\* built and rendered the read lock has been released; the write lock is held
\* only in the entry and push steps of one interface, not during the refresh,
\* the iteration or the sleep.
C16_NoLockAcrossRender ==
    /\ InDraw => dataReaders = 0
    /\ dataWriter <=> pcS \in {"entry", "push"}

\* C17: after running.store(false) the sampler completes at most the tick in
\* flight: at most one further point per interface is appended; once the join
\* has returned the sampler has terminated and nothing is appended.
C17_AtMostInFlightTick ==
    [][/\ lenAtStop' # NotStopped =>
             \A n \in Names : Len(appended'[n]) <= lenAtStop'[n] + 1
       /\ (pcM \in {"restore", "exited"} /\ appResult = "Ok") =>
             (pcS = "done" /\ data' = data /\ appended' = appended)]_vars

\* the join has returned and the tick in flight at the store appended a point
C17_Witness ==
    /\ pcM = "exited"
    /\ appResult = "Ok"
    /\ lenAtStop # NotStopped
    /\ \E n \in Names : Len(appended[n]) = lenAtStop[n] + 1

\* C18: every series a reader can see is non-empty: whenever the store is not
\* write-locked, and so whenever a render pass holds its read guard, no
\* interface name is mapped to an empty series.
C18_NoEmptySeries ==
    (~dataWriter \/ dataReaders > 0) =>
        \A n \in DOMAIN data : data[n] # <<>>

\* a render pass holds the store while the sampler waits to insert a new name
C18_Witness ==
    /\ InDraw
    /\ dataReaders > 0
    /\ Len(datasets) = 1
    /\ pcS = "lock"
    /\ cur \notin DOMAIN data

\* C19: in every render pass every point of every series, of the datasets
\* and of the store they borrow from, lies inside the axis bounds of the
\* chart: 0 <= timestamp <= x upper bound and 0 <= rate <= y upper bound.
C19_PointsInsideBounds ==
    Rendered =>
        /\ chart.datasets = Datasets(data, hashOrder)
        /\ \A n \in DOMAIN data : \A i \in 1..Len(data[n]) :
              /\ 0 <= data[n][i][1] /\ data[n][i][1] <= chart.x_bounds[2]
              /\ 0 <= data[n][i][2] /\ data[n][i][2] <= chart.y_bounds[2]

\* a render pass over two series that end at different timestamps
C19_Witness ==
    /\ Rendered
    /\ \E n, m \in DOMAIN data :
          /\ data[n] # <<>> /\ data[m] # <<>>
          /\ LastOf(data[n]) < LastOf(data[m])
          /\ chart.x_bounds[2] = LastOf(data[m])

\* C20: the sampler never stops on its own: the flag is false until run sets
\* it, it is true from before the spawn until run stores false on the quit
\* path, and the sampler loop has exited only after that store.
C20_StopsOnlyOnQuit ==
    /\ pcM \in {"init", "clear", "new", "run"} => (~running /\ pcS = "none")
    /\ (pcS # "none" /\ lenAtStop = NotStopped) => (running /\ pcS # "done")
    /\ pcS = "done" => (input = "key_q" /\ ~running /\ lenAtStop # NotStopped)

\* the sampler ran both ticks and exited after the quit
C20_Witness ==
    /\ pcS = "done"
    /\ ticks = 2
    /\ \E n \in DOMAIN data : Len(data[n]) = 2
====
